---- MODULE Spec2Model ----
(***************************************************************************)
(* Ledger core of the ATM backend: ATMService.deposit / withdraw /         *)
(* transfer running as concurrent coroutines against the record store      *)
(* (DatabaseConfig.get_record / update_record / insert_record).            *)
(*                                                                         *)
(* Every await of a store call is one step of the caller; the computation  *)
(* between two awaits belongs to the step of the await that precedes it.   *)
(* A store call either answers or raises; a call that raises has written   *)
(* nothing.  The store assigns id and created_at of a transaction row; the *)
(* position of a row in `transactions` stands for both.  Amounts are in    *)
(* cents.                                                                  *)
(*                                                                         *)
(* Around the ledger, each under a specification of its own: the read-only *)
(* calls check_balance, get_transaction_history / account_history and      *)
(* validate_card; the rate limiter of utils/rate_limit.py; the password    *)
(* reset of utils/auth.py.                                                 *)
(***************************************************************************)
EXTENDS Integers, Sequences, FiniteSets, TLC

\* ---- bounds -------------------------------------------------------------
NumProcs == 2        \* concurrent callers of the service
MaxAmount == 2       \* largest amount a caller passes
MaxOpening == 1      \* largest opening balance of an account
MaxRows == 11        \* longest log a history query runs against
MaxRequests == 7     \* requests that reach the rate-limited handler
MaxClock == 750      \* the clock stops here, in seconds
MaxResetClock == 3600    \* the clock of the password resets stops here

Procs == 1..NumProcs
Accounts == {"A", "B"}              \* ids that resolve in the accounts table
MissingId == "Z"                    \* an id no accounts row matches
AccountIds == Accounts \cup {MissingId}
Amounts == 0..MaxAmount

None == [id |-> "None"]

VARIABLES
    accounts,       \* the accounts table: id -> row
    transactions,   \* the transactions table, in insertion order
    opening,        \* the balance each account had before any call
    pc,             \* position of each caller
    call,           \* the call each caller makes: operation and arguments
    account,        \* local `account` of deposit / withdraw
    from_account,   \* local `from_account` of transfer
    to_account,     \* local `to_account` of transfer
    new_balance,    \* local `new_balance` of deposit / withdraw
    result,         \* how the call returned
    returned,       \* the value a read-only call returned
    card,           \* local `card` of validate_card
    cards,          \* the cards table: card_number -> row
    users,          \* the users table: id -> row
    reset_token,    \* local `reset_token` of generate_reset_token
    rate_limit_store,   \* utils/rate_limit.py: key -> (window key -> count)
    reached,        \* requests that reached a rate-limited handler, per window
    now             \* the clock: time.time() / datetime.utcnow()

vars == <<accounts, transactions, opening, pc, call, account, from_account,
          to_account, new_balance, result, returned, card, cards, users, reset_token,
          rate_limit_store, reached, now>>

\* what the deposit / withdraw / transfer frames never touch
beyondLedger == <<returned, card, cards, users, reset_token, rate_limit_store, reached, now>>

NoCall == [op |-> "none", account_id |-> MissingId, to_account_id |-> MissingId, amount |-> 0]

AccountNumber(a) == IF a = "A" THEN "1001" ELSE "1002"

\* the account_type column of an accounts row
AccountType(a) == IF a = "A" THEN "SAVINGS" ELSE "CHECKING"

\* the values of the status column of an accounts row
AccountStatuses == {"ACTIVE", "FROZEN", "CLOSED"}

\* an accounts row
AccountRow(a, balance, status) ==
    [id |-> a, balance |-> balance, account_number |-> AccountNumber(a),
     account_type |-> AccountType(a), status |-> status]

\* ---- the record store ---------------------------------------------------
\* db.get_record('accounts', {'id': id}): the first matching row, or None
get_record(id) == IF id \in DOMAIN accounts THEN accounts[id] ELSE None

\* an update whose filter matches every row
update_recordEveryRow(id, b) ==
    [a \in DOMAIN accounts |-> [accounts[a] EXCEPT !.balance = b]]

\* db.update_record('accounts', {'id': id}, {'balance': b}): the table after
\* the update; a blind overwrite of the rows that match
update_record(id, b) ==
    [a \in DOMAIN accounts |->
        IF a = id THEN [accounts[a] EXCEPT !.balance = b] ELSE accounts[a]]

\* an insert that replaces the newest row
insert_recordOverwriting(row) ==
    IF transactions = <<>> THEN <<row>>
    ELSE [transactions EXCEPT ![Len(transactions)] = row]

\* db.insert_record('transactions', row): the table after the insert
insert_record(row) == Append(transactions, row)

\* ---- models/transaction.py ----------------------------------------------
\* the amount check, letting 0 through
ValidAmountLax(amount) == amount >= 0

\* TransactionBase: amount: float = Field(..., gt=0)
ValidAmount(amount) == amount > 0

\* TransactionCreate(...).dict()
TransactionCreate(account_id, transaction_type, amount, description) ==
    [account_id |-> account_id, transaction_type |-> transaction_type,
     amount |-> amount, description |-> description, category |-> "OTHER"]

\* the row deposit / withdraw hand to insert_record
TransactionRow(data, balance_after) ==
    [account_id |-> data.account_id, transaction_type |-> data.transaction_type,
     amount |-> data.amount, description |-> data.description,
     category |-> data.category, balance_after |-> balance_after,
     status |-> "COMPLETED"]

\* ---- frames of a call ---------------------------------------------------
\* account_id of the withdraw frame: the caller's, or transfer's from_account_id
WithdrawAccountId(p) == call[p].account_id

\* account_id of the deposit frame: the caller's, or transfer's to_account_id
DepositAccountId(p) ==
    IF call[p].op = "transfer" THEN call[p].to_account_id ELSE call[p].account_id

\* the withdraw frame of a transfer described as a plain withdrawal
WithdrawDescriptionPlain(p) == <<"ATM Withdrawal">>

\* description of the withdraw frame
WithdrawDescription(p) ==
    IF call[p].op = "transfer"
    THEN <<"Transfer to", to_account[p].account_number>>
    ELSE <<"ATM Withdrawal">>

\* description of the deposit frame
DepositDescription(p) ==
    IF call[p].op = "transfer"
    THEN <<"Transfer from", from_account[p].account_number>>
    ELSE <<"ATM Deposit">>

\* ---- initial state ------------------------------------------------------
\* no card, no user, no request counted, nothing returned
BeyondLedgerInit ==
    /\ returned = [p \in Procs |-> None]
    /\ card = [p \in Procs |-> None]
    /\ cards = <<>>
    /\ users = <<>>
    /\ reset_token = [p \in Procs |-> None]
    /\ rate_limit_store = <<>>
    /\ reached = <<>>
    /\ now = 0

Init ==
    /\ opening \in [Accounts -> 0..MaxOpening]
    /\ accounts = [a \in Accounts |-> AccountRow(a, opening[a], "ACTIVE")]
    /\ transactions = <<>>
    /\ pc = [p \in Procs |-> "idle"]
    /\ call = [p \in Procs |-> NoCall]
    /\ account = [p \in Procs |-> None]
    /\ from_account = [p \in Procs |-> None]
    /\ to_account = [p \in Procs |-> None]
    /\ new_balance = [p \in Procs |-> 0]
    /\ result = [p \in Procs |-> "none"]
    /\ BeyondLedgerInit

\* as Init, with accounts of any status
StatusInit ==
    /\ opening \in [Accounts -> 0..MaxOpening]
    /\ \E st \in [Accounts -> AccountStatuses] :
         accounts = [a \in Accounts |-> AccountRow(a, opening[a], st[a])]
    /\ transactions = <<>>
    /\ pc = [p \in Procs |-> "idle"]
    /\ call = [p \in Procs |-> NoCall]
    /\ account = [p \in Procs |-> None]
    /\ from_account = [p \in Procs |-> None]
    /\ to_account = [p \in Procs |-> None]
    /\ new_balance = [p \in Procs |-> 0]
    /\ result = [p \in Procs |-> "none"]
    /\ BeyondLedgerInit

\* the call returns or raises: its frames and their locals are gone
Return(p, r) ==
    /\ pc' = [pc EXCEPT ![p] = "done"]
    /\ result' = [result EXCEPT ![p] = r]
    /\ account' = [account EXCEPT ![p] = None]
    /\ from_account' = [from_account EXCEPT ![p] = None]
    /\ to_account' = [to_account EXCEPT ![p] = None]
    /\ new_balance' = [new_balance EXCEPT ![p] = 0]

\* ---- callers ------------------------------------------------------------
\* a caller invokes deposit(account_id, amount)
StartDeposit(p) ==
    /\ pc[p] = "idle"
    /\ \E a \in AccountIds, m \in Amounts :
         call' = [call EXCEPT ![p] = [op |-> "deposit", account_id |-> a,
                                      to_account_id |-> MissingId, amount |-> m]]
    /\ pc' = [pc EXCEPT ![p] = "d_get"]
    /\ UNCHANGED <<accounts, transactions, opening, account, from_account,
                   to_account, new_balance, result>>
    /\ UNCHANGED beyondLedger

\* a caller invokes withdraw(account_id, amount)
StartWithdraw(p) ==
    /\ pc[p] = "idle"
    /\ \E a \in AccountIds, m \in Amounts :
         call' = [call EXCEPT ![p] = [op |-> "withdraw", account_id |-> a,
                                      to_account_id |-> MissingId, amount |-> m]]
    /\ pc' = [pc EXCEPT ![p] = "w_get"]
    /\ UNCHANGED <<accounts, transactions, opening, account, from_account,
                   to_account, new_balance, result>>
    /\ UNCHANGED beyondLedger

\* a caller invokes transfer(from_account_id, to_account_id, amount)
StartTransfer(p) ==
    /\ pc[p] = "idle"
    /\ \E a \in AccountIds, b \in AccountIds, m \in Amounts :
         call' = [call EXCEPT ![p] = [op |-> "transfer", account_id |-> a,
                                      to_account_id |-> b, amount |-> m]]
    /\ pc' = [pc EXCEPT ![p] = "t_get_from"]
    /\ UNCHANGED <<accounts, transactions, opening, account, from_account,
                   to_account, new_balance, result>>
    /\ UNCHANGED beyondLedger

\* ---- ATMService.deposit -------------------------------------------------
\* the new balance, leaving the amount out
DepositNewBalanceStale(balance, amount) == balance

\* new_balance = account['balance'] + amount
DepositNewBalance(balance, amount) == balance + amount

\* account = await get_record(...); not found -> ValueError; TransactionCreate
\* validates the amount; new_balance is computed
DepositGet(p) ==
    /\ pc[p] = "d_get"
    /\ LET acc == get_record(DepositAccountId(p)) IN
         IF acc = None
         THEN Return(p, "Account not found")
         ELSE IF ~ValidAmount(call[p].amount)
         THEN Return(p, "ValidationError")
         ELSE /\ account' = [account EXCEPT ![p] = acc]
              /\ new_balance' = [new_balance EXCEPT ![p] =
                                   DepositNewBalance(acc.balance, call[p].amount)]
              /\ pc' = [pc EXCEPT ![p] = "d_upd"]
              /\ UNCHANGED <<from_account, to_account, result>>
    /\ UNCHANGED <<accounts, transactions, opening, call>>
    /\ UNCHANGED beyondLedger

\* await update_record('accounts', {'id': account_id}, {'balance': new_balance})
DepositUpdate(p) ==
    /\ pc[p] = "d_upd"
    /\ accounts' = update_record(DepositAccountId(p), new_balance[p])
    /\ pc' = [pc EXCEPT ![p] = "d_ins"]
    /\ UNCHANGED <<transactions, opening, call, account, from_account,
                   to_account, new_balance, result>>
    /\ UNCHANGED beyondLedger

\* transaction = await insert_record('transactions', {...}); return it
DepositInsert(p) ==
    /\ pc[p] = "d_ins"
    /\ transactions' = insert_record(TransactionRow(
           TransactionCreate(DepositAccountId(p), "DEPOSIT", call[p].amount,
                             DepositDescription(p)),
           new_balance[p]))
    /\ Return(p, "ok")
    /\ UNCHANGED <<accounts, opening, call>>
    /\ UNCHANGED beyondLedger

\* ---- ATMService.withdraw ------------------------------------------------
\* the sufficiency check, off by one
InsufficientFundsOffByOne(balance, amount) == balance + 1 < amount

\* if account['balance'] < amount: raise ValueError("Insufficient funds")
InsufficientFunds(balance, amount) == balance < amount

\* the new balance, adding the amount
WithdrawNewBalanceAdding(balance, amount) == balance + amount

\* new_balance = account['balance'] - amount
WithdrawNewBalance(balance, amount) == balance - amount

\* transfer never resumes after its withdraw
AfterWithdrawStuck(p) == IF call[p].op = "transfer" THEN "t_wait" ELSE "done"

\* where the caller of withdraw goes on after withdraw returned its transaction
AfterWithdraw(p) == IF call[p].op = "transfer" THEN "d_get" ELSE "done"

\* account = await get_record(...); not found / insufficient funds -> ValueError;
\* TransactionCreate validates the amount; new_balance is computed
WithdrawGet(p) ==
    /\ pc[p] = "w_get"
    /\ LET acc == get_record(WithdrawAccountId(p)) IN
         IF acc = None
         THEN Return(p, "Account not found")
         ELSE IF InsufficientFunds(acc.balance, call[p].amount)
         THEN Return(p, "Insufficient funds")
         ELSE IF ~ValidAmount(call[p].amount)
         THEN Return(p, "ValidationError")
         ELSE /\ account' = [account EXCEPT ![p] = acc]
              /\ new_balance' = [new_balance EXCEPT ![p] =
                                   WithdrawNewBalance(acc.balance, call[p].amount)]
              /\ pc' = [pc EXCEPT ![p] = "w_upd"]
              /\ UNCHANGED <<from_account, to_account, result>>
    /\ UNCHANGED <<accounts, transactions, opening, call>>
    /\ UNCHANGED beyondLedger

\* await update_record('accounts', {'id': account_id}, {'balance': new_balance})
WithdrawUpdate(p) ==
    /\ pc[p] = "w_upd"
    /\ accounts' = update_record(WithdrawAccountId(p), new_balance[p])
    /\ pc' = [pc EXCEPT ![p] = "w_ins"]
    /\ UNCHANGED <<transactions, opening, call, account, from_account,
                   to_account, new_balance, result>>
    /\ UNCHANGED beyondLedger

\* transaction = await insert_record('transactions', {...}); return it, to the
\* caller or to transfer, which goes on to its deposit
WithdrawInsert(p) ==
    /\ pc[p] = "w_ins"
    /\ transactions' = insert_record(TransactionRow(
           TransactionCreate(WithdrawAccountId(p), "WITHDRAWAL", call[p].amount,
                             WithdrawDescription(p)),
           new_balance[p]))
    /\ IF AfterWithdraw(p) = "done"
       THEN Return(p, "ok")
       ELSE /\ pc' = [pc EXCEPT ![p] = AfterWithdraw(p)]
            /\ account' = [account EXCEPT ![p] = None]
            /\ new_balance' = [new_balance EXCEPT ![p] = 0]
            /\ UNCHANGED <<from_account, to_account, result>>
    /\ UNCHANGED <<accounts, opening, call>>
    /\ UNCHANGED beyondLedger

\* ---- ATMService.transfer ------------------------------------------------
\* from_account = await get_record('accounts', {'id': from_account_id})
TransferGetFrom(p) ==
    /\ pc[p] = "t_get_from"
    /\ from_account' = [from_account EXCEPT ![p] = get_record(call[p].account_id)]
    /\ pc' = [pc EXCEPT ![p] = "t_get_to"]
    /\ UNCHANGED <<accounts, transactions, opening, call, account, to_account,
                   new_balance, result>>
    /\ UNCHANGED beyondLedger

\* to_account = await get_record('accounts', {'id': to_account_id}); then the
\* existence check and the sufficiency check on from_account
TransferGetTo(p) ==
    /\ pc[p] = "t_get_to"
    /\ LET to == get_record(call[p].to_account_id) IN
         IF from_account[p] = None \/ to = None
         THEN Return(p, "One or both accounts not found")
         ELSE IF InsufficientFunds(from_account[p].balance, call[p].amount)
         THEN Return(p, "Insufficient funds")
         ELSE /\ to_account' = [to_account EXCEPT ![p] = to]
              /\ pc' = [pc EXCEPT ![p] = "w_get"]
              /\ UNCHANGED <<account, from_account, new_balance, result>>
    /\ UNCHANGED <<accounts, transactions, opening, call>>
    /\ UNCHANGED beyondLedger

\* ---- DatabaseConfig: a store call raises --------------------------------
AwaitingStore(p) ==
    pc[p] \in {"t_get_from", "t_get_to", "w_get", "w_upd", "w_ins", "d_get", "d_upd", "d_ins",
              "b_get", "h_query"}

\* the pending get_record / update_record / insert_record raises; nothing is
\* written, and the exception propagates out of the call
StoreError(p) ==
    /\ AwaitingStore(p)
    /\ Return(p, "PersistenceFailure")
    /\ UNCHANGED <<accounts, transactions, opening, call>>
    /\ UNCHANGED beyondLedger

\* ---- specification ------------------------------------------------------
Step(p) ==
    \/ DepositGet(p)
    \/ DepositUpdate(p)
    \/ DepositInsert(p)
    \/ WithdrawGet(p)
    \/ WithdrawUpdate(p)
    \/ WithdrawInsert(p)
    \/ TransferGetFrom(p)
    \/ TransferGetTo(p)

Next ==
    \E p \in Procs :
        \/ StartDeposit(p)
        \/ StartWithdraw(p)
        \/ StartTransfer(p)
        \/ Step(p)
        \/ StoreError(p)

Spec == Init /\ [][Next]_vars

\* the service over accounts that may be FROZEN or CLOSED
StatusSpec == StatusInit /\ [][Next]_vars

\* ---- ATMService.check_balance -------------------------------------------
\* a caller invokes check_balance(account_id)
StartCheckBalance(p) ==
    /\ pc[p] = "idle"
    /\ \E a \in AccountIds :
         call' = [call EXCEPT ![p] = [op |-> "check_balance", account_id |-> a,
                                      to_account_id |-> MissingId, amount |-> 0]]
    /\ pc' = [pc EXCEPT ![p] = "b_get"]
    /\ UNCHANGED <<accounts, transactions, opening, account, from_account,
                   to_account, new_balance, result>>
    /\ UNCHANGED beyondLedger

\* the reply, with the balance the account was opened with
BalanceReplyOpening(account_id, acc) ==
    [account_id |-> account_id, balance |-> opening[acc.id],
     account_type |-> acc.account_type]

\* the dictionary check_balance returns
BalanceReply(account_id, acc) ==
    [account_id |-> account_id, balance |-> acc.balance,
     account_type |-> acc.account_type]

\* account = await get_record(...); not found -> ValueError; else the reply
CheckBalanceGet(p) ==
    /\ pc[p] = "b_get"
    /\ LET acc == get_record(call[p].account_id) IN
         IF acc = None
         THEN /\ Return(p, "Account not found")
              /\ UNCHANGED returned
         ELSE /\ Return(p, "ok")
              /\ returned' = [returned EXCEPT ![p] = BalanceReply(call[p].account_id, acc)]
    /\ UNCHANGED <<accounts, transactions, opening, call>>
    /\ UNCHANGED <<card, cards, users, reset_token, rate_limit_store, reached, now>>

BalanceNext ==
    \/ Next
    \/ \E p \in Procs :
        \/ StartCheckBalance(p)
        \/ CheckBalanceGet(p)

\* the service with balance queries among the deposits, withdrawals and transfers
BalanceSpec == Init /\ [][BalanceNext]_vars

\* ---- transaction history ------------------------------------------------
\* get_transaction_history(self, account_id, limit: int = 10)
DefaultLimit == 10

\* an absent start_date / end_date
NoDate == 0

\* the dates a caller of the history route passes
HistoryDates == {NoDate, 2, 3}

\* a transactions row as the store returns it: with the created_at the store
\* gave it, which is its position in the log
StoredRow(i) == [created_at |-> i, row |-> transactions[i]]

\* WHERE account_id = :account_id [AND created_at >= :start_date]
\* [AND created_at <= :end_date]
InRange(i, account_id, start_date, end_date) ==
    /\ transactions[i].account_id = account_id
    /\ start_date # NoDate => i >= start_date
    /\ end_date # NoDate => i <= end_date

\* ... ORDER BY created_at DESC, over the rows 1..n of the log
RECURSIVE SelectDesc(_, _, _, _)
SelectDesc(account_id, start_date, end_date, n) ==
    IF n = 0 THEN <<>>
    ELSE LET older == SelectDesc(account_id, start_date, end_date, n - 1) IN
         IF InRange(n, account_id, start_date, end_date)
         THEN <<StoredRow(n)>> \o older
         ELSE older

\* ... LIMIT :limit
Limit(rows, limit) ==
    IF Len(rows) <= limit THEN rows ELSE SubSeq(rows, 1, limit)

\* a log of n deposits of 1, the first k into A and the others into B
HistoryLog(k, n) ==
    [i \in 1..n |->
        TransactionRow(TransactionCreate(IF i <= k THEN "A" ELSE "B", "DEPOSIT", 1,
                                         <<"ATM Deposit">>),
                       IF i <= k THEN i ELSE i - k)]

\* the store after n deposits into accounts opened empty
HistoryInit ==
    /\ opening = [a \in Accounts |-> 0]
    /\ \E n \in 0..MaxRows : \E k \in 0..n :
         /\ transactions = HistoryLog(k, n)
         /\ accounts = [a \in Accounts |->
                           AccountRow(a, IF a = "A" THEN k ELSE n - k, "ACTIVE")]
    /\ pc = [p \in Procs |-> "idle"]
    /\ call = [p \in Procs |-> NoCall]
    /\ account = [p \in Procs |-> None]
    /\ from_account = [p \in Procs |-> None]
    /\ to_account = [p \in Procs |-> None]
    /\ new_balance = [p \in Procs |-> 0]
    /\ result = [p \in Procs |-> "none"]
    /\ BeyondLedgerInit

\* a caller invokes get_transaction_history(account_id) with the default limit
StartGetTransactionHistory(p) ==
    /\ pc[p] = "idle"
    /\ \E a \in AccountIds :
         call' = [call EXCEPT ![p] = [op |-> "get_transaction_history",
                                      account_id |-> a, limit |-> DefaultLimit,
                                      start_date |-> NoDate, end_date |-> NoDate]]
    /\ pc' = [pc EXCEPT ![p] = "h_query"]
    /\ UNCHANGED <<accounts, transactions, opening, account, from_account,
                   to_account, new_balance, result>>
    /\ UNCHANGED beyondLedger

\* transactions = await execute_query(SELECT ... ORDER BY created_at DESC
\* LIMIT :limit); return them
GetTransactionHistory(p) ==
    /\ pc[p] = "h_query"
    /\ returned' = [returned EXCEPT ![p] =
                      Limit(SelectDesc(call[p].account_id, NoDate, NoDate,
                                       Len(transactions)),
                            call[p].limit)]
    /\ Return(p, "ok")
    /\ UNCHANGED <<accounts, transactions, opening, call>>
    /\ UNCHANGED <<card, cards, users, reset_token, rate_limit_store, reached, now>>

\* a request GET /accounts/<account_id>/history?start_date=&end_date= arrives
StartAccountHistory(p) ==
    /\ pc[p] = "idle"
    /\ \E a \in AccountIds, sd \in HistoryDates, ed \in HistoryDates :
         call' = [call EXCEPT ![p] = [op |-> "account_history", account_id |-> a,
                                      limit |-> 0,
                                      start_date |-> sd, end_date |-> ed]]
    /\ pc' = [pc EXCEPT ![p] = "h_route"]
    /\ UNCHANGED <<accounts, transactions, opening, account, from_account,
                   to_account, new_balance, result>>
    /\ UNCHANGED beyondLedger

\* main.py account_history: the query is built; history = db.execute_query(...)
\* is not awaited, so history is the coroutine and not the rows; history.sort
\* raises AttributeError, which the handler answers with status 500
AccountHistory(p) ==
    /\ pc[p] = "h_route"
    /\ Return(p, "500")
    /\ UNCHANGED <<accounts, transactions, opening, call>>
    /\ UNCHANGED beyondLedger

HistoryNext ==
    \E p \in Procs :
        \/ StartGetTransactionHistory(p)
        \/ GetTransactionHistory(p)
        \/ StartAccountHistory(p)
        \/ AccountHistory(p)
        \/ StoreError(p)

\* history queries against a store at rest
HistorySpec == HistoryInit /\ [][HistoryNext]_vars

\* ---- ATMService.validate_card -------------------------------------------
\* the card number of the one card row, and a number of no card row
CardNumbers == {"4000", "4999"}

\* the PINs a caller enters or a cards row stores
Pins == {"1234", "0000"}

\* values of the status column of a cards row
CardStatuses == {"ACTIVE", "BLOCKED"}

\* a cards row
CardRow(number, pin_hash, status, account_id) ==
    [id |-> <<"card", number>>, card_number |-> number, pin_hash |-> pin_hash,
     status |-> status, account_id |-> account_id]

\* db.get_record('cards', {'card_number': card_number})
get_card(card_number) ==
    IF card_number \in DOMAIN cards THEN cards[card_number] ELSE None

\* the store with no card or with card 4000, whatever its PIN, status and
\* linked account id
CardInit ==
    /\ opening = [a \in Accounts |-> 0]
    /\ accounts = [a \in Accounts |-> AccountRow(a, opening[a], "ACTIVE")]
    /\ transactions = <<>>
    /\ pc = [p \in Procs |-> "idle"]
    /\ call = [p \in Procs |-> NoCall]
    /\ account = [p \in Procs |-> None]
    /\ from_account = [p \in Procs |-> None]
    /\ to_account = [p \in Procs |-> None]
    /\ new_balance = [p \in Procs |-> 0]
    /\ result = [p \in Procs |-> "none"]
    /\ returned = [p \in Procs |-> None]
    /\ card = [p \in Procs |-> None]
    /\ \/ cards = <<>>
       \/ \E h \in Pins, st \in CardStatuses, a \in AccountIds :
            cards = [n \in {"4000"} |-> CardRow(n, h, st, a)]
    /\ users = <<>>
    /\ reset_token = [p \in Procs |-> None]
    /\ rate_limit_store = <<>>
    /\ reached = <<>>
    /\ now = 0

\* a caller invokes validate_card(card_number, pin)
StartValidateCard(p) ==
    /\ pc[p] = "idle"
    /\ \E n \in CardNumbers, pin \in Pins :
         call' = [call EXCEPT ![p] = [op |-> "validate_card", card_number |-> n,
                                      pin |-> pin]]
    /\ pc' = [pc EXCEPT ![p] = "v_card"]
    /\ UNCHANGED <<accounts, transactions, opening, account, from_account,
                   to_account, new_balance, result>>
    /\ UNCHANGED beyondLedger

\* a PIN check that lets every PIN through
PinMismatchNever(c, pin) == FALSE

\* if card['pin_hash'] != pin
PinMismatch(c, pin) == c.pin_hash # pin

\* card = await get_record('cards', ...); then the checks on the card
ValidateCardGetCard(p) ==
    /\ pc[p] = "v_card"
    /\ LET c == get_card(call[p].card_number) IN
         IF c = None
         THEN Return(p, "Invalid card") /\ UNCHANGED card
         ELSE IF PinMismatch(c, call[p].pin)
         THEN Return(p, "Invalid PIN") /\ UNCHANGED card
         ELSE IF c.status # "ACTIVE"
         THEN Return(p, "Card is not active") /\ UNCHANGED card
         ELSE /\ card' = [card EXCEPT ![p] = c]
              /\ pc' = [pc EXCEPT ![p] = "v_account"]
              /\ UNCHANGED <<account, from_account, to_account, new_balance, result>>
    /\ UNCHANGED <<accounts, transactions, opening, call>>
    /\ UNCHANGED <<returned, cards, users, reset_token, rate_limit_store, reached, now>>

\* account = await get_record('accounts', {'id': card['account_id']}); not
\* found -> ValueError; else the card id, account id and account number
ValidateCardGetAccount(p) ==
    /\ pc[p] = "v_account"
    /\ LET acc == get_record(card[p].account_id) IN
         IF acc = None
         THEN Return(p, "Account not found") /\ UNCHANGED returned
         ELSE /\ Return(p, "ok")
              /\ returned' = [returned EXCEPT ![p] =
                                [card_id |-> card[p].id, account_id |-> acc.id,
                                 account_number |-> acc.account_number]]
    /\ card' = [card EXCEPT ![p] = None]
    /\ UNCHANGED <<accounts, transactions, opening, call>>
    /\ UNCHANGED <<cards, users, reset_token, rate_limit_store, reached, now>>

\* the pending get_record of validate_card raises
CardStoreError(p) ==
    /\ pc[p] \in {"v_card", "v_account"}
    /\ Return(p, "PersistenceFailure")
    /\ card' = [card EXCEPT ![p] = None]
    /\ UNCHANGED <<accounts, transactions, opening, call>>
    /\ UNCHANGED <<returned, cards, users, reset_token, rate_limit_store, reached, now>>

CardNext ==
    \E p \in Procs :
        \/ StartValidateCard(p)
        \/ ValidateCardGetCard(p)
        \/ ValidateCardGetAccount(p)
        \/ CardStoreError(p)

\* card validations against a store at rest
CardSpec == CardInit /\ [][CardNext]_vars

\* ---- utils/rate_limit.py ------------------------------------------------
\* @rate_limit(limit=5, window=300) on login
LoginLimit == 5

LoginWindow == 300

\* f.__name__ of the rate-limited handler
Endpoint == "login"

\* what get_client_identifier returns: the first X-Forwarded-For entry or
\* request.remote_addr. An address, and a header that is a decimal number.
Clients == {"10.0.0.1", "9"}

\* A key is modelled as the sequence of its fields: the f-string joins them
\* with ':' and k.split(':') takes them apart again, no field holding a ':'.
\* key = f"rate_limit:{client_id}:{f.__name__}"
RateLimitKey(client_id) == <<"rate_limit", client_id, Endpoint>>

\* window_key = f"{key}:{current // window}"
WindowKey(key, current, window) == Append(key, ToString(current \div window))

\* int(s) succeeds on a decimal numeral and raises ValueError otherwise
IsNumeral(s) == \E n \in 0..9 : ToString(n) = s

\* int(s), for a numeral
IntOf(s) == CHOOSE n \in 0..9 : ToString(n) = s

\* rate_limit_store[key], a defaultdict(dict): an absent key is an empty dict
Counters(key) ==
    IF key \in DOMAIN rate_limit_store THEN rate_limit_store[key] ELSE <<>>

\* the clean-up loop deletes k: int(k.split(':')[1]) is below the current
\* window number, or parsing raised ValueError / IndexError
Deleted(k, current, window) ==
    IF Len(k) < 2 THEN TRUE
    ELSE IF ~IsNumeral(k[2]) THEN TRUE
    ELSE IntOf(k[2]) < current \div window

\* rate_limit_store[key] after the clean-up loop
CleanedUp(key, current, window) ==
    LET entries == Counters(key)
        kept == {k \in DOMAIN entries : ~Deleted(k, current, window)}
    IN  [k \in kept |-> entries[k]]

\* rate_limit_store[key].get(window_key, 0) after the clean-up
CountAfterCleanUp(key, current, window) ==
    LET entries == CleanedUp(key, current, window)
        window_key == WindowKey(key, current, window)
    IN  IF window_key \in DOMAIN entries THEN entries[window_key] ELSE 0

\* the store after check_rate_limit(key, limit, window) at time `current`
AfterCheck(key, limit, current, window) ==
    LET entries == CleanedUp(key, current, window)
        window_key == WindowKey(key, current, window)
        count == CountAfterCleanUp(key, current, window)
        counted == IF count >= limit THEN entries
                   ELSE [k \in DOMAIN entries \cup {window_key} |->
                            IF k = window_key THEN count + 1 ELSE entries[k]]
    IN  [k \in DOMAIN rate_limit_store \cup {key} |->
            IF k = key THEN counted ELSE rate_limit_store[k]]

\* the requests of a client that reached the handler in a window
ReachedIn(client_id, window_num) ==
    IF <<client_id, window_num>> \in DOMAIN reached
    THEN reached[<<client_id, window_num>>] ELSE 0

RECURSIVE TotalReached(_)
TotalReached(S) ==
    IF S = {} THEN 0
    ELSE LET x == CHOOSE y \in S : TRUE IN reached[x] + TotalReached(S \ {x})

\* the server has been up for one window, nothing counted
LimiterInit ==
    /\ opening = [a \in Accounts |-> 0]
    /\ accounts = [a \in Accounts |-> AccountRow(a, opening[a], "ACTIVE")]
    /\ transactions = <<>>
    /\ pc = [p \in Procs |-> "idle"]
    /\ call = [p \in Procs |-> NoCall]
    /\ account = [p \in Procs |-> None]
    /\ from_account = [p \in Procs |-> None]
    /\ to_account = [p \in Procs |-> None]
    /\ new_balance = [p \in Procs |-> 0]
    /\ result = [p \in Procs |-> "none"]
    /\ returned = [p \in Procs |-> None]
    /\ card = [p \in Procs |-> None]
    /\ cards = <<>>
    /\ users = <<>>
    /\ reset_token = [p \in Procs |-> None]
    /\ rate_limit_store = <<>>
    /\ reached = <<>>
    /\ now = LoginWindow

\* decorated(): worker p serves a login request of some client. The check,
\* run under rate_limit_lock, and the answer: 429 'Rate limit exceeded'
\* without calling the handler, or the handler's response
RateLimitedRequest(p) ==
    /\ TotalReached(DOMAIN reached) < MaxRequests
    /\ \E client_id \in Clients :
         LET key == RateLimitKey(client_id)
             is_allowed == CountAfterCleanUp(key, now, LoginWindow) < LoginLimit
             w == <<client_id, now \div LoginWindow>>
         IN  /\ rate_limit_store' = AfterCheck(key, LoginLimit, now, LoginWindow)
             /\ call' = [call EXCEPT ![p] = [op |-> Endpoint, client_id |-> client_id]]
             /\ IF is_allowed
                THEN /\ reached' = [k \in DOMAIN reached \cup {w} |->
                                       ReachedIn(k[1], k[2]) + (IF k = w THEN 1 ELSE 0)]
                     /\ result' = [result EXCEPT ![p] = "ok"]
                ELSE /\ reached' = reached
                     /\ result' = [result EXCEPT ![p] = "429 Rate limit exceeded"]
    /\ UNCHANGED <<accounts, transactions, opening, pc, account, from_account,
                   to_account, new_balance>>
    /\ UNCHANGED <<returned, card, cards, users, reset_token, now>>

\* half a window goes by
Tick ==
    /\ now < MaxClock
    /\ now' = now + LoginWindow \div 2
    /\ UNCHANGED <<accounts, transactions, opening, pc, call, account, from_account,
                   to_account, new_balance, result>>
    /\ UNCHANGED <<returned, card, cards, users, reset_token, rate_limit_store, reached>>

LimiterNext ==
    \/ \E p \in Procs : RateLimitedRequest(p)
    \/ Tick

\* the rate-limited login route
LimiterSpec == LimiterInit /\ [][LimiterNext]_vars

\* ---- utils/auth.py: password reset --------------------------------------
\* RESET_TOKEN_EXPIRATION = timedelta(hours=1), in seconds
ResetTokenExpiration == 3600

Users == {"u1", "u2"}

\* the email column of a users row, and an address of no user
Email(u) == <<u, "@example.com">>

Emails == {Email(u) : u \in Users} \cup {<<"nobody", "@example.com">>}

\* hash_password(password); the salt is left out
hash_password(password) == <<"sha256", password>>

\* create_reset_token(user_id) at time t: the signed payload. Two tokens with
\* the same payload are the same string.
create_reset_token(user_id, t) ==
    [user_id |-> user_id, type |-> "reset", exp |-> t + ResetTokenExpiration]

\* a signed token that is not a reset token
AccessToken == [user_id |-> "u1", type |-> "access", exp |-> 2 * ResetTokenExpiration]

\* the times at which a token can have been created
IssueTimes == {0, ResetTokenExpiration \div 2, MaxResetClock}

\* the tokens a caller of reset_password presents
PresentedTokens ==
    {create_reset_token(u, t) : u \in Users, t \in IssueTimes} \cup {AccessToken}

\* verify_reset_token(token): the user_id, or None when the signature has
\* expired or the type is not 'reset'
verify_reset_token(token) ==
    IF token.exp <= now THEN None
    ELSE IF token.type # "reset" THEN None
    ELSE [id |-> token.user_id]

\* a users row; reset_token and reset_token_expires are None or set together
UserRow(u, password, token) ==
    [id |-> u, email |-> Email(u), password_hash |-> hash_password(password),
     reset_token |-> token,
     reset_token_expires |-> IF token = None THEN None ELSE [at |-> token.exp]]

\* db.get_record('users', {'email': email})
get_user_by_email(email) ==
    IF \E u \in DOMAIN users : users[u].email = email
    THEN users[CHOOSE u \in DOMAIN users : users[u].email = email]
    ELSE None

\* db.get_record('users', {'id': user_id})
get_user(user_id) == IF user_id \in DOMAIN users THEN users[user_id] ELSE None

\* two users, each with no reset token or with the one generated at time 0
ResetInit ==
    /\ opening = [a \in Accounts |-> 0]
    /\ accounts = [a \in Accounts |-> AccountRow(a, opening[a], "ACTIVE")]
    /\ transactions = <<>>
    /\ pc = [p \in Procs |-> "idle"]
    /\ call = [p \in Procs |-> NoCall]
    /\ account = [p \in Procs |-> None]
    /\ from_account = [p \in Procs |-> None]
    /\ to_account = [p \in Procs |-> None]
    /\ new_balance = [p \in Procs |-> 0]
    /\ result = [p \in Procs |-> "none"]
    /\ returned = [p \in Procs |-> None]
    /\ card = [p \in Procs |-> None]
    /\ cards = <<>>
    /\ \E has \in [Users -> BOOLEAN] :
         users = [u \in Users |->
                    UserRow(u, "old", IF has[u] THEN create_reset_token(u, 0) ELSE None)]
    /\ reset_token = [p \in Procs |-> None]
    /\ rate_limit_store = <<>>
    /\ reached = <<>>
    /\ now = 0

\* a caller invokes generate_reset_token(email)
StartGenerateResetToken(p) ==
    /\ pc[p] = "idle"
    /\ \E email \in Emails :
         call' = [call EXCEPT ![p] = [op |-> "generate_reset_token", email |-> email]]
    /\ pc' = [pc EXCEPT ![p] = "g_get"]
    /\ UNCHANGED <<accounts, transactions, opening, account, from_account,
                   to_account, new_balance, result>>
    /\ UNCHANGED beyondLedger

\* user = await get_record('users', {'email': email}); no user -> None; else
\* the token is created
GenerateGet(p) ==
    /\ pc[p] = "g_get"
    /\ LET user == get_user_by_email(call[p].email) IN
         IF user = None
         THEN /\ Return(p, "None")
              /\ UNCHANGED reset_token
         ELSE /\ reset_token' = [reset_token EXCEPT ![p] = create_reset_token(user.id, now)]
              /\ pc' = [pc EXCEPT ![p] = "g_upd"]
              /\ UNCHANGED <<account, from_account, to_account, new_balance, result>>
    /\ UNCHANGED <<accounts, transactions, opening, call>>
    /\ UNCHANGED <<returned, card, cards, users, rate_limit_store, reached, now>>

\* await update_record('users', {'id': user['id']}, {'reset_token': ...,
\* 'reset_token_expires': ...}); return reset_token
GenerateUpdate(p) ==
    /\ pc[p] = "g_upd"
    /\ LET t == reset_token[p] IN
         /\ users' = [users EXCEPT ![t.user_id] =
                        [@ EXCEPT !.reset_token = t,
                                  !.reset_token_expires = [at |-> t.exp]]]
         /\ returned' = [returned EXCEPT ![p] = t]
    /\ reset_token' = [reset_token EXCEPT ![p] = None]
    /\ Return(p, "ok")
    /\ UNCHANGED <<accounts, transactions, opening, call>>
    /\ UNCHANGED <<card, cards, rate_limit_store, reached, now>>

\* a caller invokes reset_password(token, new_password); verify_reset_token
\* runs before the first await
StartResetPassword(p) ==
    /\ pc[p] = "idle"
    /\ \E token \in PresentedTokens :
         /\ call' = [call EXCEPT ![p] = [op |-> "reset_password", token |-> token,
                                         new_password |-> "new"]]
         /\ IF verify_reset_token(token) = None
            THEN /\ pc' = [pc EXCEPT ![p] = "done"]
                 /\ result' = [result EXCEPT ![p] = "False"]
            ELSE /\ pc' = [pc EXCEPT ![p] = "r_get"]
                 /\ UNCHANGED result
    /\ UNCHANGED <<accounts, transactions, opening, account, from_account,
                   to_account, new_balance>>
    /\ UNCHANGED beyondLedger

\* a token check that lets every token of an existing user through
TokenMismatchNever(user, token) == FALSE

\* user.get('reset_token') != token
TokenMismatch(user, token) == user.reset_token # token

\* datetime.utcnow() > user.get('reset_token_expires'); comparing with None
\* raises TypeError, which reset_password answers with False as well
TokenExpired(user) ==
    IF user.reset_token_expires = None THEN TRUE
    ELSE now > user.reset_token_expires.at

\* user = await get_record('users', {'id': user_id}); then the checks
ResetGet(p) ==
    /\ pc[p] = "r_get"
    /\ LET user == get_user(call[p].token.user_id) IN
         IF user = None \/ TokenMismatch(user, call[p].token)
         THEN Return(p, "False")
         ELSE IF TokenExpired(user)
         THEN Return(p, "False")
         ELSE /\ pc' = [pc EXCEPT ![p] = "r_upd"]
              /\ UNCHANGED <<account, from_account, to_account, new_balance, result>>
    /\ UNCHANGED <<accounts, transactions, opening, call>>
    /\ UNCHANGED beyondLedger

\* await update_record('users', {'id': user_id}, {'password_hash': ...,
\* 'reset_token': None, 'reset_token_expires': None}); return True
ResetUpdate(p) ==
    /\ pc[p] = "r_upd"
    /\ users' = [users EXCEPT ![call[p].token.user_id] =
                   [@ EXCEPT !.password_hash = hash_password(call[p].new_password),
                             !.reset_token = None,
                             !.reset_token_expires = None]]
    /\ Return(p, "True")
    /\ UNCHANGED <<accounts, transactions, opening, call>>
    /\ UNCHANGED <<returned, card, cards, reset_token, rate_limit_store, reached, now>>

\* the pending store call raises: except Exception -> return None / False
ResetStoreError(p) ==
    /\ pc[p] \in {"g_get", "g_upd", "r_get", "r_upd"}
    /\ Return(p, IF call[p].op = "reset_password" THEN "False" ELSE "None")
    /\ reset_token' = [reset_token EXCEPT ![p] = None]
    /\ UNCHANGED <<accounts, transactions, opening, call>>
    /\ UNCHANGED <<returned, card, cards, users, rate_limit_store, reached, now>>

\* half the life of a token goes by
ResetTick ==
    /\ now < MaxResetClock
    /\ now' = now + ResetTokenExpiration \div 2
    /\ UNCHANGED <<accounts, transactions, opening, pc, call, account, from_account,
                   to_account, new_balance, result>>
    /\ UNCHANGED <<returned, card, cards, users, reset_token, rate_limit_store, reached>>

ResetNext ==
    \/ \E p \in Procs :
        \/ StartGenerateResetToken(p)
        \/ GenerateGet(p)
        \/ GenerateUpdate(p)
        \/ StartResetPassword(p)
        \/ ResetGet(p)
        \/ ResetUpdate(p)
        \/ ResetStoreError(p)
    \/ ResetTick

\* password resets
ResetSpec == ResetInit /\ [][ResetNext]_vars

\* ---- amounts finer than a cent -----------------------------------------
\* Under PrecisionSpec amounts and balances are in thousandths (0.001), so
\* that an amount with a third fractional digit can be passed: 5 is 0.005,
\* 10 is 0.01, 15 is 0.015.
FineAmounts == {5, 10, 15}

\* balances at rest have 2 fractional digits: 0.00 or 0.01
FineOpenings == {0, 10}

\* utils/helpers.py validate_amount: Decimal(str(amount)) is positive and its
\* exponent is not below -2
validate_amount(amount) == amount > 0 /\ amount % 10 = 0

PrecisionInit ==
    /\ opening \in [Accounts -> FineOpenings]
    /\ accounts = [a \in Accounts |-> AccountRow(a, opening[a], "ACTIVE")]
    /\ transactions = <<>>
    /\ pc = [p \in Procs |-> "idle"]
    /\ call = [p \in Procs |-> NoCall]
    /\ account = [p \in Procs |-> None]
    /\ from_account = [p \in Procs |-> None]
    /\ to_account = [p \in Procs |-> None]
    /\ new_balance = [p \in Procs |-> 0]
    /\ result = [p \in Procs |-> "none"]
    /\ BeyondLedgerInit

\* a caller invokes deposit(account_id, amount) with an amount in thousandths
StartDepositFine(p) ==
    /\ pc[p] = "idle"
    /\ \E a \in AccountIds, m \in FineAmounts :
         call' = [call EXCEPT ![p] = [op |-> "deposit", account_id |-> a,
                                      to_account_id |-> MissingId, amount |-> m]]
    /\ pc' = [pc EXCEPT ![p] = "d_get"]
    /\ UNCHANGED <<accounts, transactions, opening, account, from_account,
                   to_account, new_balance, result>>
    /\ UNCHANGED beyondLedger

\* a caller invokes withdraw(account_id, amount) with an amount in thousandths
StartWithdrawFine(p) ==
    /\ pc[p] = "idle"
    /\ \E a \in AccountIds, m \in FineAmounts :
         call' = [call EXCEPT ![p] = [op |-> "withdraw", account_id |-> a,
                                      to_account_id |-> MissingId, amount |-> m]]
    /\ pc' = [pc EXCEPT ![p] = "w_get"]
    /\ UNCHANGED <<accounts, transactions, opening, account, from_account,
                   to_account, new_balance, result>>
    /\ UNCHANGED beyondLedger

PrecisionNext ==
    \E p \in Procs :
        \/ StartDepositFine(p)
        \/ StartWithdrawFine(p)
        \/ DepositGet(p)
        \/ DepositUpdate(p)
        \/ DepositInsert(p)
        \/ WithdrawGet(p)
        \/ WithdrawUpdate(p)
        \/ WithdrawInsert(p)
        \/ StoreError(p)

PrecisionSpec == PrecisionInit /\ [][PrecisionNext]_vars

TypeOK ==
    /\ \A a \in Accounts : accounts[a].balance \in Int
    /\ \A p \in Procs : pc[p] \in {"idle", "done", "t_get_from", "t_get_to",
                                   "w_get", "w_upd", "w_ins", "d_get", "d_upd", "d_ins",
                                   "b_get", "h_query", "h_route",
                                   "v_card", "v_account",
                                   "g_get", "g_upd", "r_get", "r_upd"}

\* ---- vocabulary of the claims -------------------------------------------
Balance(a) == accounts[a].balance

Rejections == {"Account not found", "Insufficient funds", "ValidationError",
               "One or both accounts not found"}

Done(p) == pc[p] = "done"

\* no caller other than p has invoked anything
Alone(p) == \A q \in Procs \ {p} : pc[q] = "idle"

RECURSIVE SignedSum(_, _)
\* deposits minus withdrawals of account a among the COMPLETED rows of log
SignedSum(a, log) ==
    IF log = <<>> THEN 0
    ELSE LET t == log[Len(log)] IN
         SignedSum(a, SubSeq(log, 1, Len(log) - 1))
         + (IF t.account_id = a /\ t.status = "COMPLETED"
            THEN (IF t.transaction_type = "DEPOSIT" THEN t.amount ELSE -t.amount)
            ELSE 0)

RowsOf(a) == {i \in 1..Len(transactions) : transactions[i].account_id = a}

\* p is between its read of a's balance and the end of its write and insert
InFlightOn(p, a) ==
    \/ pc[p] \in {"w_upd", "w_ins"} /\ WithdrawAccountId(p) = a
    \/ pc[p] \in {"d_upd", "d_ins"} /\ DepositAccountId(p) = a

\* ---- claims -------------------------------------------------------------

\* C1: in every reachable state each account's stored balance equals its
\* opening balance plus its COMPLETED deposits minus its COMPLETED withdrawals
\* in the transaction log.
C1_BalanceMatchesHistory ==
    \A a \in Accounts : Balance(a) = opening[a] + SignedSum(a, transactions)

\* C2: when every caller deposits the same amount m on the same account a and
\* all have returned, the balance is opening + N*m and the account has N rows.
C2_ConcurrentDepositsAddUp ==
    \A a \in Accounts, m \in Amounts :
        (\A p \in Procs : /\ Done(p) /\ result[p] = "ok"
                          /\ call[p].op = "deposit"
                          /\ call[p].account_id = a /\ call[p].amount = m)
        => /\ Balance(a) = opening[a] + NumProcs * m
           /\ Cardinality(RowsOf(a)) = NumProcs

\* both legs of p's transfer are in the log and in the balances, or neither is
BothLegsOrNeither(p) ==
    LET f == call[p].account_id
        t == call[p].to_account_id
        m == call[p].amount
    IN \/ /\ transactions = <<>>
          /\ \A a \in Accounts : Balance(a) = opening[a]
       \/ /\ Len(transactions) = 2
          /\ transactions[1].account_id = f
          /\ transactions[1].transaction_type = "WITHDRAWAL"
          /\ transactions[2].account_id = t
          /\ transactions[2].transaction_type = "DEPOSIT"
          /\ \A a \in Accounts :
               Balance(a) = opening[a] - (IF a = f THEN m ELSE 0)
                                       + (IF a = t THEN m ELSE 0)

\* p's transfer has completed its debit leg and not yet written its credit
BetweenLegs(p) == call[p].op = "transfer" /\ pc[p] \in {"d_get", "d_upd"}

\* C3: a transfer that a store failure interrupts between its debit leg and
\* its credit leg leaves both legs (log and balances) or neither.
C3_TransferAllOrNothing ==
    [][\A p \in Procs :
         (Alone(p) /\ BetweenLegs(p) /\ StoreError(p)) => BothLegsOrNeither(p)']_vars

\* a step in which p's call is rejected
Rejected(p) == ~Done(p) /\ pc'[p] = "done" /\ result'[p] \in Rejections

\* p has written to the store in its current call
HasWritten(p) ==
    \/ pc[p] \in {"w_ins", "d_ins"}
    \/ call[p].op = "transfer" /\ pc[p] \in {"d_get", "d_upd"}

\* C4: no stored balance is ever below 0, and a call that is rejected has
\* written nothing and its rejection changes no balance.
C4_NoNegativeBalance ==
    /\ [](\A a \in Accounts : Balance(a) >= 0)
    /\ [][\A p \in Procs : Rejected(p) => ~HasWritten(p) /\ accounts' = accounts]_vars

\* C4: a withdrawal took an account to 0 and another was rejected for
\* insufficient funds.
C4_Witness ==
    \E p \in Procs, q \in Procs :
        /\ Done(p) /\ call[p].op = "withdraw" /\ result[p] = "Insufficient funds"
        /\ Done(q) /\ call[q].op \in {"withdraw", "transfer"} /\ result[q] = "ok"
        /\ call[q].account_id \in Accounts
        /\ Balance(call[q].account_id) = 0

\* C5: a withdrawal writes its debit only when the balance stored at that
\* moment covers the amount.
C5_DebitOnFreshBalance ==
    [][\A p \in Procs :
         WithdrawUpdate(p) => Balance(WithdrawAccountId(p)) >= call[p].amount]_vars

\* C6: no two calls are in flight on the same account at once.
C6_OneInFlightPerAccount ==
    \A a \in Accounts : \A p \in Procs, q \in Procs :
        InFlightOn(p, a) /\ InFlightOn(q, a) => p = q

\* C7: a deposit or withdrawal that a store failure interrupts leaves the
\* balance unchanged and no transaction row.
C7_SingleOpAllOrNothing ==
    \A p \in Procs :
        (/\ Done(p) /\ Alone(p) /\ call[p].op \in {"deposit", "withdraw"}
         /\ result[p] = "PersistenceFailure")
        => /\ transactions = <<>>
           /\ \A a \in Accounts : Balance(a) = opening[a]

\* C8: two opposing transfers of amounts the opening balances cover, both
\* returned successfully, leave A with opening - x + y and B with opening + x - y.
C8_OpposingTransfersAddUp ==
    \A p \in Procs, q \in Procs :
        (/\ p # q /\ Done(p) /\ Done(q) /\ result[p] = "ok" /\ result[q] = "ok"
         /\ \A r \in Procs \ {p, q} : pc[r] = "idle"
         /\ call[p].op = "transfer" /\ call[q].op = "transfer"
         /\ call[p].account_id = "A" /\ call[p].to_account_id = "B"
         /\ call[q].account_id = "B" /\ call[q].to_account_id = "A"
         /\ call[p].amount <= opening["A"] /\ call[q].amount <= opening["B"])
        => /\ Balance("A") = opening["A"] - call[p].amount + call[q].amount
           /\ Balance("B") = opening["B"] + call[p].amount - call[q].amount

InTransfer(p) == call[p].op = "transfer" /\ pc[p] \notin {"idle", "done"}

\* C9: opposing transfers that are both under way both return.
C9_OpposingTransfersReturn ==
    \A p \in Procs, q \in Procs :
        (/\ p # q /\ InTransfer(p) /\ InTransfer(q)
         /\ call[p].account_id = "A" /\ call[p].to_account_id = "B"
         /\ call[q].account_id = "B" /\ call[q].to_account_id = "A")
        ~> (Done(p) /\ Done(q))

\* C9: opposing transfers are under way together, each with its debit leg
\* written and its credit leg still to come.
C9_Witness ==
    \E p \in Procs, q \in Procs :
        /\ p # q /\ pc[p] = "d_get" /\ pc[q] = "d_get"
        /\ call[p].op = "transfer" /\ call[q].op = "transfer"
        /\ call[p].account_id = "A" /\ call[p].to_account_id = "B"
        /\ call[q].account_id = "B" /\ call[q].to_account_id = "A"

\* C10: a transfer that ran alone and returned success moved exactly amount
\* and added exactly the two rows.
C10_TransferAlone ==
    \A p \in Procs :
        (Done(p) /\ Alone(p) /\ call[p].op = "transfer" /\ result[p] = "ok")
        => LET f == call[p].account_id
               t == call[p].to_account_id
               m == call[p].amount
           IN /\ Balance(f) = opening[f] - m
              /\ Balance(t) = opening[t] + m
              /\ Len(transactions) = 2
              /\ transactions[1].account_id = f
              /\ transactions[1].transaction_type = "WITHDRAWAL"
              /\ transactions[1].amount = m
              /\ transactions[1].balance_after = opening[f] - m
              /\ transactions[2].account_id = t
              /\ transactions[2].transaction_type = "DEPOSIT"
              /\ transactions[2].amount = m
              /\ transactions[2].balance_after = opening[t] + m

\* nothing in the store differs from its state before any call
StoreUntouched ==
    /\ transactions = <<>>
    /\ \A a \in Accounts : Balance(a) = opening[a]

\* C11: a deposit that ran alone and returned success raised the balance by
\* exactly amount and added exactly one row: DEPOSIT, COMPLETED, the amount,
\* balance_after equal to the new stored balance.
C11_DepositAlone ==
    \A p \in Procs :
        (Done(p) /\ Alone(p) /\ call[p].op = "deposit" /\ result[p] = "ok")
        => LET a == call[p].account_id
               m == call[p].amount
           IN /\ a \in Accounts
              /\ Balance(a) = opening[a] + m
              /\ \A b \in Accounts \ {a} : Balance(b) = opening[b]
              /\ Len(transactions) = 1
              /\ transactions[1].account_id = a
              /\ transactions[1].transaction_type = "DEPOSIT"
              /\ transactions[1].status = "COMPLETED"
              /\ transactions[1].amount = m
              /\ transactions[1].balance_after = Balance(a)

\* C11: a deposit of 2 on an account opened with 1 ran alone and succeeded.
C11_Witness ==
    \E p \in Procs :
        /\ Done(p) /\ Alone(p) /\ call[p].op = "deposit" /\ result[p] = "ok"
        /\ call[p].amount = 2 /\ opening[call[p].account_id] = 1

\* C12: a withdrawal of amount <= balance that ran alone and returned success
\* set the balance to old - amount >= 0 and added exactly one row: WITHDRAWAL,
\* COMPLETED, the amount, balance_after equal to the new stored balance.
C12_WithdrawAlone ==
    \A p \in Procs :
        (Done(p) /\ Alone(p) /\ call[p].op = "withdraw" /\ result[p] = "ok")
        => LET a == call[p].account_id
               m == call[p].amount
           IN /\ a \in Accounts
              /\ m <= opening[a]
              /\ Balance(a) = opening[a] - m
              /\ Balance(a) >= 0
              /\ \A b \in Accounts \ {a} : Balance(b) = opening[b]
              /\ Len(transactions) = 1
              /\ transactions[1].account_id = a
              /\ transactions[1].transaction_type = "WITHDRAWAL"
              /\ transactions[1].status = "COMPLETED"
              /\ transactions[1].amount = m
              /\ transactions[1].balance_after = Balance(a)

\* C12: a withdrawal of 1 from an account opened with 1 ran alone and succeeded.
C12_Witness ==
    \E p \in Procs :
        /\ Done(p) /\ Alone(p) /\ call[p].op = "withdraw" /\ result[p] = "ok"
        /\ call[p].amount = 1 /\ opening[call[p].account_id] = 1

\* C13: a withdrawal of more than the balance, run alone, fails with
\* "Insufficient funds" (unless its read of the account raised) and leaves
\* the balance unchanged and the log without a row.
C13_InsufficientFundsNoMutation ==
    \A p \in Procs :
        (/\ Done(p) /\ Alone(p) /\ call[p].op = "withdraw"
         /\ call[p].account_id \in Accounts
         /\ call[p].amount > opening[call[p].account_id])
        => /\ result[p] \in {"Insufficient funds", "PersistenceFailure"}
           /\ StoreUntouched

\* C13: a withdrawal of 2 from an account holding 1 was refused.
C13_Witness ==
    \E p \in Procs :
        /\ Done(p) /\ Alone(p) /\ call[p].op = "withdraw"
        /\ call[p].account_id \in Accounts
        /\ call[p].amount = 2 /\ opening[call[p].account_id] = 1
        /\ result[p] = "Insufficient funds"

\* C14: a deposit with amount <= 0 or an account id that does not resolve,
\* run alone, fails and leaves no row and no balance change on any account.
C14_InvalidDepositNoEffect ==
    \A p \in Procs :
        (/\ Done(p) /\ Alone(p) /\ call[p].op = "deposit"
         /\ (call[p].amount <= 0 \/ call[p].account_id \notin Accounts))
        => /\ result[p] # "ok"
           /\ StoreUntouched

\* C14: a deposit of 0 on an existing account failed validation, and so did
\* a deposit on an id that does not resolve.
C14_Witness ==
    \E p \in Procs :
        /\ Done(p) /\ Alone(p) /\ call[p].op = "deposit"
        /\ call[p].amount = 0 /\ call[p].account_id \in Accounts
        /\ result[p] = "ValidationError"

\* the preconditions of p's transfer fail in the store as opened
TransferPreconditionFails(p) ==
    \/ call[p].account_id \notin Accounts
    \/ call[p].to_account_id \notin Accounts
    \/ call[p].amount <= 0
    \/ opening[call[p].account_id] < call[p].amount

\* C15: a transfer whose preconditions fail (an account missing, amount <= 0,
\* source balance < amount), run alone, fails with both balances unchanged
\* and no row added.
C15_InvalidTransferNoEffect ==
    \A p \in Procs :
        (/\ Done(p) /\ Alone(p) /\ call[p].op = "transfer"
         /\ TransferPreconditionFails(p))
        => /\ result[p] # "ok"
           /\ StoreUntouched

\* C15: a transfer of 0 between existing accounts reached its withdraw and was
\* rejected there.
C15_Witness ==
    \E p \in Procs :
        /\ Done(p) /\ Alone(p) /\ call[p].op = "transfer"
        /\ call[p].account_id \in Accounts /\ call[p].to_account_id \in Accounts
        /\ call[p].amount = 0
        /\ result[p] = "ValidationError"

\* C16: a transfer from an account to itself, when no store call raises, is
\* rejected and leaves the balance unchanged and no row added.
C16_SelfTransferRejected ==
    \A p \in Procs :
        (/\ Done(p) /\ Alone(p) /\ call[p].op = "transfer"
         /\ call[p].account_id = call[p].to_account_id
         /\ result[p] # "PersistenceFailure")
        => /\ result[p] \in Rejections
           /\ StoreUntouched

\* the accounts p's call names that resolve
AccountsOf(p) ==
    (IF call[p].op = "transfer"
     THEN {call[p].account_id, call[p].to_account_id}
     ELSE {call[p].account_id}) \cap Accounts

\* C17: a deposit, withdrawal or transfer that names an account whose status
\* is not ACTIVE fails (is rejected, when no store call raises), and that
\* account's balance and rows are unchanged.
C17_OnlyActiveAccountsMutate ==
    \A p \in Procs : \A a \in AccountsOf(p) :
        (/\ Done(p) /\ Alone(p) /\ accounts[a].status # "ACTIVE"
         /\ result[p] # "PersistenceFailure")
        => /\ result[p] \in Rejections
           /\ Balance(a) = opening[a]
           /\ RowsOf(a) = {}

\* C18: a deposit or withdrawal of an amount with more than 2 fractional
\* digits, run alone, is rejected (when no store call raises) and leaves the
\* balances and the log unchanged.
C18_FractionalAmountRejected ==
    \A p \in Procs :
        (/\ Done(p) /\ Alone(p) /\ call[p].op \in {"deposit", "withdraw"}
         /\ ~validate_amount(call[p].amount)
         /\ result[p] # "PersistenceFailure")
        => /\ result[p] \in Rejections
           /\ StoreUntouched

\* C19: the balance_after of every row equals the opening balance of its
\* account plus deposits minus withdrawals of the log up to and including it.
C19_BalanceAfterMatchesHistory ==
    \A i \in 1..Len(transactions) :
        LET a == transactions[i].account_id IN
        transactions[i].balance_after =
            opening[a] + SignedSum(a, SubSeq(transactions, 1, i))

\* C20: every step leaves the rows already in the log as they are, in place.
C20_LogAppendOnly ==
    [][/\ Len(transactions') >= Len(transactions)
       /\ SubSeq(transactions', 1, Len(transactions)) = transactions]_vars

\* C20: a row was inserted after another one.
C20_Witness ==
    /\ Len(transactions) >= 2
    /\ \E p \in Procs : Done(p) /\ result[p] = "ok"


\* ---- read-only operations ----------------------------------------------
\* C21: the step in which check_balance gets its answer from the store
\* changes no accounts row and no transactions row; when the account exists
\* the call returns the balance and account type stored at that moment, and
\* when the identifier does not resolve it fails with 'Account not found'.
C21_CheckBalanceReadOnly ==
    [][\A p \in Procs :
         (pc[p] = "b_get" /\ pc'[p] = "done" /\ result'[p] # "PersistenceFailure") =>
           /\ accounts' = accounts
           /\ transactions' = transactions
           /\ IF call[p].account_id \in Accounts
              THEN /\ result'[p] = "ok"
                   /\ returned'[p].balance = Balance(call[p].account_id)
                   /\ returned'[p].account_type = accounts[call[p].account_id].account_type
              ELSE result'[p] = "Account not found"]_vars

\* C21: a balance query has returned the balance a concurrent deposit or
\* withdrawal left, which is not the opening one.
C21_Witness ==
    \E p \in Procs :
        /\ Done(p) /\ call[p].op = "check_balance" /\ result[p] = "ok"
        /\ returned[p].balance = Balance(call[p].account_id)
        /\ returned[p].balance # opening[call[p].account_id]
        /\ transactions # <<>>

CardValid(number, pin) ==
    /\ number \in DOMAIN cards
    /\ cards[number].pin_hash = pin
    /\ cards[number].status = "ACTIVE"
    /\ cards[number].account_id \in DOMAIN accounts

\* C23: validate_card, when no store call raises, succeeds exactly when the
\* card exists, the PIN matches the stored credential, the card is ACTIVE
\* and the linked account exists; on success it returns the card's id and
\* the linked account's id and account number; no step changes a stored
\* record.
C23_ValidateCardContract ==
    /\ [](\A p \in Procs :
            (/\ Done(p) /\ call[p].op = "validate_card"
             /\ result[p] # "PersistenceFailure")
            => /\ result[p] = "ok" <=> CardValid(call[p].card_number, call[p].pin)
               /\ result[p] = "ok" =>
                    LET c == cards[call[p].card_number] IN
                    returned[p] = [card_id |-> c.id, account_id |-> c.account_id,
                                   account_number |-> accounts[c.account_id].account_number])
    /\ [][cards' = cards /\ accounts' = accounts /\ transactions' = transactions]_vars

\* C23: a validation succeeded while another one, of a wrong PIN, failed.
C23_Witness ==
    \E p \in Procs, q \in Procs :
        /\ Done(p) /\ call[p].op = "validate_card" /\ result[p] = "ok"
        /\ returned[p].account_number = AccountNumber(returned[p].account_id)
        /\ Done(q) /\ call[q].op = "validate_card" /\ result[q] = "Invalid PIN"

\* the validation of p fails one of the checks on the card: its existence,
\* its PIN, its status
FailsCardCheck(p) ==
    /\ Done(p) /\ call[p].op = "validate_card"
    /\ result[p] # "PersistenceFailure"
    /\ \/ call[p].card_number \notin DOMAIN cards
       \/ cards[call[p].card_number].pin_hash # call[p].pin
       \/ cards[call[p].card_number].status # "ACTIVE"

\* C24: two validations that fail a check on the card return the same
\* failure, whichever of the checks each one failed.
C24_FailureDoesNotLeak ==
    \A p \in Procs, q \in Procs :
        (FailsCardCheck(p) /\ FailsCardCheck(q)) => result[p] = result[q]

\* ---- the rate limiter ---------------------------------------------------
\* C27: no client has more than `limit` requests reach the handler within
\* one window.
C27_AtMostLimitPerWindow ==
    \A w \in DOMAIN reached : reached[w] <= LoginLimit

\* C28: the counter of the current window of a key the decorator built is
\* the number of that client's requests allowed so far in that window (so a
\* check never removed or reset it).
C28_CurrentCounterKept ==
    \A client_id \in Clients :
        LET key == RateLimitKey(client_id)
            window_key == WindowKey(key, now, LoginWindow)
            count == IF window_key \in DOMAIN Counters(key)
                     THEN Counters(key)[window_key] ELSE 0
        IN  count = ReachedIn(client_id, now \div LoginWindow)

\* ---- password reset ------------------------------------------------------
\* C29: no two reset_password calls with the same token both return True.
C29_TokenSingleUse ==
    \A p \in Procs : \A q \in Procs \ {p} :
        ~(/\ Done(p) /\ call[p].op = "reset_password" /\ result[p] = "True"
          /\ Done(q) /\ call[q].op = "reset_password" /\ result[q] = "True"
          /\ call[p].token = call[q].token)

\* C30, as stated: a reset_password call that reads the users table while a
\* user has a stored token other than the one it presents returns False and
\* changes no users row.
C30_OnlyStoredTokenUsable ==
    [][\A p \in Procs, u \in Users :
         (/\ pc[p] = "r_get" /\ pc'[p] # "r_get"
          /\ users[u].reset_token # None
          /\ call[p].token # users[u].reset_token)
         => /\ pc'[p] = "done" /\ result'[p] = "False"
            /\ users' = users]_vars

\* C30, amended: a reset_password call that presents a token other than the
\* one stored for the user the token names returns False and changes no
\* users row; and a reset_password call changes no row but that user's.
C30_StoredTokenOfItsUserUsable ==
    [][\A p \in Procs :
         /\ (/\ pc[p] = "r_get" /\ pc'[p] # "r_get"
             /\ call[p].token # users[call[p].token.user_id].reset_token)
            => /\ pc'[p] = "done" /\ result'[p] = "False"
               /\ users' = users
         /\ (pc[p] = "r_upd" /\ pc'[p] # "r_upd")
            => \A v \in Users \ {call[p].token.user_id} : users'[v] = users[v]]_vars

\* C30: generate_reset_token has stored a new token for a user, and a
\* reset_password call with an earlier, unexpired token of that user returned
\* False; the password and the new token are as they were.
C30_Witness ==
    \E p \in Procs, q \in Procs :
        /\ Done(p) /\ call[p].op = "generate_reset_token" /\ result[p] = "ok"
        /\ Done(q) /\ call[q].op = "reset_password" /\ result[q] = "False"
        /\ call[q].token.type = "reset"
        /\ call[q].token.user_id = returned[p].user_id
        /\ call[q].token # returned[p]
        /\ call[q].token.exp > now
        /\ users[returned[p].user_id].reset_token = returned[p]
        /\ users[returned[p].user_id].password_hash = hash_password("old")

\* ---- scope and order of the writes ---------------------------------------
\* C25: a step of a call changes no accounts row other than those of the
\* accounts the call names, and adds no row of another account to the log.
C25_ScopedToNamedAccounts ==
    [][\A p \in Procs :
         pc'[p] # pc[p] =>
           /\ \A a \in Accounts \ AccountsOf(p) : accounts'[a] = accounts[a]
           /\ \A i \in (Len(transactions) + 1)..Len(transactions') :
                transactions'[i].account_id \in AccountsOf(p)]_vars

\* C25: a deposit into one account has returned, its balance has moved and
\* the other account has its opening balance.
C25_Witness ==
    \E p \in Procs : \E a \in Accounts :
        /\ Done(p) /\ Alone(p) /\ call[p].op = "deposit" /\ result[p] = "ok"
        /\ call[p].account_id = a
        /\ Balance(a) # opening[a]
        /\ \A b \in Accounts \ {a} : Balance(b) = opening[b] /\ RowsOf(b) = {}

\* the rows 1..n of the log that are the debit leg of a transfer of m from
\* src to dst
DebitLegs(src, dst, m, n) ==
    {i \in 1..n : /\ transactions[i].transaction_type = "WITHDRAWAL"
                  /\ transactions[i].account_id = src
                  /\ transactions[i].amount = m
                  /\ transactions[i].description = <<"Transfer to", AccountNumber(dst)>>}

\* the rows 1..n of the log that are the credit leg of a transfer of m from
\* src to dst
CreditLegs(src, dst, m, n) ==
    {i \in 1..n : /\ transactions[i].transaction_type = "DEPOSIT"
                  /\ transactions[i].account_id = dst
                  /\ transactions[i].amount = m
                  /\ transactions[i].description = <<"Transfer from", AccountNumber(src)>>}

\* C26: at every position of the log, the credit legs 'Transfer from <source>'
\* inserted so far are no more than the matching debit legs 'Transfer to
\* <destination>' inserted before them.
C26_DebitLegBeforeCreditLeg ==
    \A src \in Accounts, dst \in Accounts, m \in Amounts :
        \A n \in 1..Len(transactions) :
            Cardinality(CreditLegs(src, dst, m, n)) <=
                Cardinality(DebitLegs(src, dst, m, n - 1))

\* C26: a credit leg is in the log.
C26_Witness ==
    \E i \in 1..Len(transactions) :
        /\ transactions[i].transaction_type = "DEPOSIT"
        /\ transactions[i].description[1] = "Transfer from"


\* the callers' steps are scheduled fairly (the event loop resumes every
\* coroutine whose store call has answered)
FairSpec == Spec /\ \A p \in Procs : WF_vars(Step(p))

====
